---- MODULE Spec2Model ----
(***************************************************************************)
(* A state-machine model of qutebrowser/misc/utilcmds.py: the Profiler     *)
(* object behind :debug-profile (session, SnakeViz process handle, dumped  *)
(* files, the deferred tab-open), the :later timers and :repeat.           *)
(* Every command handler is one action; the Qt event loop's callbacks      *)
(* (process finished, deferred delete, timer timeout, singleShot) are      *)
(* actions of their own, interleaved with the commands.                    *)
(***************************************************************************)
EXTENDS Integers, Sequences, FiniteSets

VARIABLES
    profile,      \* self._app.profile: NoSession, or the identity of the cProfile.Profile
    enabled,      \* whether that Profile object is collecting (enable()/disable())
    samples,      \* data accumulated in that Profile object
    nextSession,  \* number of cProfile.Profile() objects created so far
    proc,         \* self._proc: NoProc, or the identity of the tracked GUIProcess
    procs,        \* per GUIProcess ever created: its state, port and tab-open timer
    files,        \* the file system: path -> contents
    env,          \* the environment: is snakeviz importable, is sys.frozen set
    timers,       \* the usertypes.Timer objects created by later
    clock,        \* the event loop's time, in ms
    runlog,       \* the commands handed to CommandRunner.run_safely, in order
    event         \* the handler that ran last, its arguments and its outcome

vars == <<profile, enabled, samples, nextSession, proc, procs, files, env,
          timers, clock, runlog, event>>

profilerVars == <<profile, enabled, samples, nextSession, proc, procs, files>>

(***************************************************************************)
(* Bounds of the model.                                                    *)
(***************************************************************************)
MaxSessions == 2
MaxSamples  == 1
MaxProcs    == 2
MaxTimers   == 2
MaxClock    == 3
MaxTimes    == 3
MaxLog      == 4

(***************************************************************************)
(* Values.                                                                 *)
(***************************************************************************)
NoSession == 0
NoProc    == 0
NoArg     == "<None>"

SubCommands   == {"start", "stop", "reset", "dump", "show", "kill"}
UnknownTokens == {"pause"}
Tokens        == SubCommands \cup UnknownTokens
Args          == {NoArg, "~/prof"}
Commands      == {"scroll down", "tab-next"}
Ports         == {40001, 40002}

TempProfile == "/tmp/profiling-user/profile"

\* os.path.expanduser on the argument values of the model.
expanduser(path) ==
    IF path = "~/prof" THEN "/home/user/prof" ELSE path

Paths == {expanduser(a) : a \in Args \ {NoArg}} \cup {TempProfile}

\* A path at which no file exists.
NoFile == << >>

\* What Profile.dump_stats serialises: the data collected by the session object.
Stats == <<samples>>

\* The exceptions a handler can end in.
OK             == "ok"
CommandError   == "CommandError"
AttributeError == "AttributeError"

NeverStartedMsg == "Profiling was never started!"
NoFilenameMsg   == "No filename given!"
NoProcessMsg    == "No process running!"
NoSnakevizMsg   == "SnakeViz was not found!"
FrozenMsg       == "Can't run :profile-show when frozen!"
NoProfileMsg    == "No profile recorded!"
PastMsg         == "I can't run something in the past!"
TooLargeMsg     == "Numeric argument is too large for internal int representation."
NegativeMsg     == "A negative count doesn't make sense."
UnknownMsg(cmd) == "Unknown sub-command " \o cmd \o "!"
NoAttrMsg       == "module 'cmdexc' has no attribute 'commandError'"
NoneTypeMsg     == "'NoneType' object has no attribute 'terminate'"

Ev(op, cmd, arg, n, ovf, outcome, msg) ==
    [op |-> op, cmd |-> cmd, arg |-> arg, n |-> n, ovf |-> ovf,
     outcome |-> outcome, msg |-> msg]

\* The outcome of a debug-profile invocation.  arg is the filename for dump,
\* otherwise unused (the docstring of debug_profile).
ProfEv(cmd, arg, outcome, msg) ==
    Ev("debug-profile", cmd, IF cmd = "dump" THEN arg ELSE NoArg, 0, 0,
       outcome, msg)

\* The outcome of an event-loop callback.
LoopEv(op, outcome, msg) == Ev(op, "", NoArg, 0, 0, outcome, msg)

(***************************************************************************)
(* GUIProcess objects.  "running": started, the child lives.               *)
(* "terminated": terminate() and deleteLater() were called on it, its exit *)
(* has not been notified.  "gone": its finished signal was delivered, or   *)
(* the object was destroyed before its exit was notified.                  *)
(***************************************************************************)
ProcIds == 1 .. MaxProcs

\* No URL: the process was never given a tab.
NoUrl == [port |-> 0, file |-> ""]

Unborn == [state |-> "unborn", port |-> 0, tab |-> "none", url |-> NoUrl]

Born(p) == procs[p].state # "unborn"

Alive(p) == procs[p].state \in {"running", "terminated"}

Init ==
    /\ profile = NoSession
    /\ enabled = FALSE
    /\ samples = 0
    /\ nextSession = 0
    /\ proc = NoProc
    /\ procs = [p \in ProcIds |-> Unborn]
    /\ files = [f \in Paths |-> NoFile]
    /\ env \in [snakeviz : BOOLEAN, frozen : BOOLEAN]
    /\ timers = << >>
    /\ clock = 0
    /\ runlog = << >>
    /\ event = Ev("init", "", NoArg, 0, 0, OK, "")


(***************************************************************************)
(* Profiler.debug_profile and its helpers.                                 *)
(***************************************************************************)

\* A debug-profile invocation that gives up the process handle as it raises.
RaiseDroppingHandle(cmd, arg, exc, msg) ==
    /\ event' = ProfEv(cmd, arg, exc, msg)
    /\ proc' = NoProc
    /\ UNCHANGED <<profile, enabled, samples, nextSession, procs, files>>

\* A debug-profile invocation that raises: nothing but the outcome changes.
Raise(cmd, arg, exc, msg) ==
    /\ event' = ProfEv(cmd, arg, exc, msg)
    /\ UNCHANGED profilerVars

\* A debug-profile invocation that returns normally.
Return(cmd, arg) == event' = ProfEv(cmd, arg, OK, "")

\* The head guard as it would be if show were left to the check of its helper.
NeverStartedButShow(cmd) == profile = NoSession /\ cmd \notin {"start", "show"}

\* The guard at the head of debug_profile.
NeverStarted(cmd) == profile = NoSession /\ cmd # "start"

\* QProcess.terminate() followed by deleteLater() on GUIProcess h.
terminate(ps, h) ==
    [ps EXCEPT ![h].state = IF @ = "running" THEN "terminated" ELSE @]

\* cleanup_proc without its last statement: the handle is kept.
cleanup_proc_keeping_handle(ps) ==
    /\ procs' = IF proc = NoProc THEN ps ELSE terminate(ps, proc)
    /\ proc' = proc

\* Profiler.cleanup_proc, run on the process table ps.  With self._proc None
\* the first statement raises AttributeError and nothing is changed.
cleanup_proc(ps) ==
    IF proc = NoProc
    THEN /\ procs' = ps
         /\ proc' = proc
    ELSE /\ procs' = terminate(ps, proc)
         /\ proc' = NoProc

\* start without the "is None" test: a Profile object is made every time.
DoStartAlwaysNew(cmd, arg) ==
    /\ nextSession < MaxSessions
    /\ profile' = nextSession + 1
    /\ nextSession' = nextSession + 1
    /\ samples' = 0
    /\ enabled' = TRUE
    /\ UNCHANGED <<proc, procs, files>>
    /\ event' = ProfEv(cmd, arg, OK, "")

\* cmd == 'start'
DoStart(cmd, arg) ==
    /\ IF profile = NoSession
       THEN /\ nextSession < MaxSessions
            /\ profile' = nextSession + 1
            /\ nextSession' = nextSession + 1
            /\ samples' = 0
       ELSE UNCHANGED <<profile, nextSession, samples>>
    /\ enabled' = TRUE
    /\ UNCHANGED <<proc, procs, files>>
    /\ Return(cmd, arg)

\* cmd == 'stop'
DoStop(cmd, arg) ==
    /\ enabled' = FALSE
    /\ UNCHANGED <<profile, nextSession, samples, proc, procs, files>>
    /\ Return(cmd, arg)

\* cmd == 'reset': the Profile object is dropped, with what it collected.
DoReset(cmd, arg) ==
    /\ profile' = NoSession
    /\ enabled' = FALSE
    /\ samples' = 0
    /\ UNCHANGED <<nextSession, proc, procs, files>>
    /\ Return(cmd, arg)

\* Profile.dump_stats(path): create_stats() disables the profiler, then the
\* collected data is written to path.
dump_stats(path) ==
    /\ files' = [files EXCEPT ![path] = Stats]
    /\ enabled' = FALSE

\* dump without the "arg is None" test, writing to a default path instead.
DoDumpDefaultPath(cmd, arg) ==
    /\ dump_stats(IF arg = NoArg THEN TempProfile ELSE expanduser(arg))
    /\ UNCHANGED <<profile, nextSession, samples, proc, procs>>
    /\ Return(cmd, arg)

\* cmd == 'dump'
DoDump(cmd, arg) ==
    IF arg = NoArg
    THEN Raise(cmd, arg, CommandError, NoFilenameMsg)
    ELSE /\ dump_stats(expanduser(arg))
         /\ UNCHANGED <<profile, nextSession, samples, proc, procs>>
         /\ Return(cmd, arg)

\* The GUIProcess objects created so far.
NumProcs == Cardinality({p \in ProcIds : Born(p)})

\* A URL built with a port of its own instead of the one handed to SnakeViz.
UrlOnOtherPort(port, filename) ==
    [port |-> CHOOSE q \in Ports : q # port, file |-> filename]

\* 'http://localhost:{}/snakeviz/{}'.format(port, filename)
Url(port, filename) == [port |-> port, file |-> filename]

\* Profiler._show_snakeviz, with the port _get_port returned.
show_snakeviz(cmd, arg, port) ==
    IF ~env.snakeviz
    THEN Raise(cmd, arg, CommandError, NoSnakevizMsg)
    ELSE IF env.frozen
    THEN Raise(cmd, arg, CommandError, FrozenMsg)
    ELSE IF profile = NoSession
    THEN Raise(cmd, arg, CommandError, NoProfileMsg)
    ELSE /\ NumProcs < MaxProcs
         /\ proc' = NumProcs + 1
         /\ procs' = [procs EXCEPT ![NumProcs + 1] =
                         [state |-> "running", port |-> port,
                          tab |-> "pending", url |-> Url(port, TempProfile)]]
         /\ dump_stats(TempProfile)
         /\ UNCHANGED <<profile, nextSession, samples>>
         /\ Return(cmd, arg)

\* cmd == 'kill'
DoKill(cmd, arg) ==
    IF proc = NoProc
    THEN Raise(cmd, arg, CommandError, NoProcessMsg)
    ELSE /\ cleanup_proc(procs)
         /\ UNCHANGED <<profile, enabled, samples, nextSession, files>>
         /\ Return(cmd, arg)

\* The else branch: cmdexc has CommandError but no commandError, so building
\* the exception raises AttributeError.
DoUnknown(cmd, arg) == Raise(cmd, arg, AttributeError, NoAttrMsg)

debug_profile(cmd, arg, port) ==
    IF NeverStarted(cmd)
    THEN Raise(cmd, arg, CommandError, NeverStartedMsg)
    ELSE CASE cmd = "start" -> DoStart(cmd, arg)
           [] cmd = "stop"  -> DoStop(cmd, arg)
           [] cmd = "reset" -> DoReset(cmd, arg)
           [] cmd = "dump"  -> DoDump(cmd, arg)
           [] cmd = "show"  -> show_snakeviz(cmd, arg, port)
           [] cmd = "kill"  -> DoKill(cmd, arg)
           [] OTHER         -> DoUnknown(cmd, arg)

\* The ports handed out so far.
PortsSeen == {procs[p].port : p \in {q \in ProcIds : Born(q)}}

\* _get_port is only reached by show.  The system may hand out any port: one
\* it has handed out before, or a new one.  Ports are only ever compared, so
\* the new one is taken to be the lowest not yet seen.
PortsTried(cmd) ==
    IF cmd # "show"
    THEN {0}
    ELSE PortsSeen \cup {n \in Ports : \A m \in Ports \ PortsSeen : n <= m}

\* The user issues :debug-profile cmd [arg].
DebugProfile ==
    /\ \E cmd \in Tokens, arg \in Args :
           \E port \in PortsTried(cmd) : debug_profile(cmd, arg, port)
    /\ UNCHANGED <<env, timers, clock, runlog>>

\* The enabled Profile object collects data while the application runs.
Sample ==
    /\ profile # NoSession
    /\ enabled
    /\ samples < MaxSamples
    /\ samples' = samples + 1
    /\ event' = LoopEv("sample", OK, "")
    /\ UNCHANGED <<profile, enabled, nextSession, proc, procs, files, env,
                   timers, clock, runlog>>

\* GUIProcess p exits (on its own, or after terminate()) and its finished
\* signal is delivered to the connected slot, Profiler.cleanup_proc.
ProcFinished(p) ==
    /\ Alive(p)
    /\ cleanup_proc([procs EXCEPT ![p].state = "gone"])
    /\ event' = IF proc = NoProc
                THEN LoopEv("finished", AttributeError, NoneTypeMsg)
                ELSE LoopEv("finished", OK, "")
    /\ UNCHANGED <<profile, enabled, samples, nextSession, files, env,
                   timers, clock, runlog>>

\* The deferred delete of a terminated GUIProcess is processed before its
\* exit is noticed: the object and its connections are gone, no finished
\* signal is delivered.
ProcDeleted(p) ==
    /\ procs[p].state = "terminated"
    /\ procs' = [procs EXCEPT ![p].state = "gone"]
    /\ event' = LoopEv("deleted", OK, "")
    /\ UNCHANGED <<profile, enabled, samples, nextSession, proc, files, env,
                   timers, clock, runlog>>

\* The QTimer.singleShot(500, ...) of a show fires: the tab is opened at
\* http://localhost:<port>/snakeviz/<filename>.  The timers all wait 500 ms,
\* so they fire in the order of the shows.
TabOpen(p) ==
    /\ procs[p].tab = "pending"
    /\ \A q \in ProcIds : q < p => procs[q].tab # "pending"
    /\ procs' = [procs EXCEPT ![p].tab = "opened"]
    /\ event' = LoopEv("tabopen", OK, "")
    /\ UNCHANGED <<profile, enabled, samples, nextSession, proc, files, env,
                   timers, clock, runlog>>

Next ==
    \/ DebugProfile
    \/ Sample
    \/ \E p \in ProcIds : ProcFinished(p)
    \/ \E p \in ProcIds : ProcDeleted(p)
    \/ \E p \in ProcIds : TabOpen(p)

Spec == Init /\ [][Next]_vars

(***************************************************************************)
(* later.  A Python int is unbounded: ms stands for ovf * 2^31 + v, with   *)
(* v in the C int range, so that ovf > 0 is a value QTimer cannot hold.    *)
(***************************************************************************)
CIntMax == 2147483647

MsValues == {-1, 0, 2, CIntMax}

MsInputs == {ms \in [v : MsValues, ovf : {0, 1}] : ms.ovf = 1 => ms.v >= 0}

\* ms < 0
IsNegative(ms) == ms.ovf = 0 /\ ms.v < 0

\* qtutils.check_overflow in Timer.setInterval raises OverflowError.
Overflows(ms) == ms.ovf > 0

\* A timer left repeating.
Repeating == FALSE

\* timer.setSingleShot(True)
SingleShot == TRUE

LaterEv(ms, command, outcome, msg) ==
    Ev("later", command, NoArg, ms.v, ms.ovf, outcome, msg)

\* usertypes.Timer(name='later', parent=app): not started, nothing connected.
NewTimer ==
    [interval |-> 0, created |-> clock, started |-> clock, cmd |-> "",
     singleShot |-> FALSE, active |-> FALSE, deletion |-> "no", runs |-> 0]

\* A timer that is dropped without being handed to the event loop for deletion.
deleteLater_skipped(t) == t

\* except: timer.deleteLater(); raise
deleteLater(t) == [t EXCEPT !.deletion = "scheduled"]

later(ms, command) ==
    IF IsNegative(ms)
    THEN /\ event' = LaterEv(ms, command, CommandError, PastMsg)
         /\ UNCHANGED timers
    ELSE /\ Len(timers) < MaxTimers
         /\ IF Overflows(ms)
            THEN \* except: timer.deleteLater(); raise
                 /\ timers' = Append(timers,
                        deleteLater([NewTimer EXCEPT
                                        !.singleShot = SingleShot]))
                 /\ event' = LaterEv(ms, command, CommandError, TooLargeMsg)
            ELSE /\ timers' = Append(timers,
                        [NewTimer EXCEPT !.singleShot = SingleShot,
                                         !.interval = ms.v,
                                         !.cmd = command,
                                         !.active = TRUE])
                 /\ event' = LaterEv(ms, command, OK, "")

\* The user issues :later ms command.
Later ==
    /\ \E ms \in MsInputs, command \in Commands : later(ms, command)
    /\ UNCHANGED <<profilerVars, env, clock, runlog>>

\* CommandRunner.run_safely(command)
run_safely(log, command) == Append(log, command)

Due(i) ==
    /\ timers[i].active
    /\ timers[i].deletion # "done"
    /\ clock - timers[i].started >= timers[i].interval

\* The timeout signal of timer i: the connected slots run in the order they
\* were connected, run_safely(command) and then timer.deleteLater.  A
\* single-shot timer stops; any other is restarted.
TimerFire(i) ==
    /\ Due(i)
    /\ runlog' = run_safely(runlog, timers[i].cmd)
    /\ timers' = [timers EXCEPT ![i].runs = @ + 1,
                                ![i].active = ~timers[i].singleShot,
                                ![i].started = clock,
                                ![i].deletion = "scheduled"]
    /\ event' = LoopEv("timeout", OK, "")
    /\ UNCHANGED <<profilerVars, env, clock>>

\* The deferred delete of timer i is processed.
TimerDeleted(i) ==
    /\ timers[i].deletion = "scheduled"
    /\ timers' = [timers EXCEPT ![i].deletion = "done", ![i].active = FALSE]
    /\ event' = LoopEv("timer-deleted", OK, "")
    /\ UNCHANGED <<profilerVars, env, clock, runlog>>

\* A millisecond passes.  The event loop dispatches the timers that are due
\* before it waits again.
Tick ==
    /\ clock < MaxClock
    /\ \A i \in DOMAIN timers : ~Due(i)
    /\ clock' = clock + 1
    /\ event' = LoopEv("tick", OK, "")
    /\ UNCHANGED <<profilerVars, env, timers, runlog>>

NextLater ==
    \/ Later
    \/ \E i \in DOMAIN timers : TimerFire(i)
    \/ \E i \in DOMAIN timers : TimerDeleted(i)
    \/ Tick

\* later and repeat do not read the environment of show.
InitCommands == Init /\ env.snakeviz /\ ~env.frozen

SpecLater == InitCommands /\ [][NextLater]_vars

\* The Qt event loop keeps dispatching while a timeout is due or a deferred
\* delete is posted.
Dispatch == \E i \in DOMAIN timers : TimerFire(i) \/ TimerDeleted(i)

SpecLaterFair == SpecLater /\ WF_vars(Dispatch)

(***************************************************************************)
(* repeat.                                                                 *)
(***************************************************************************)
TimesInputs == -2 .. MaxTimes

\* A range that includes its end.
range_inclusive(times) == 0 .. times

\* range(times)
range(times) == 1 .. times

\* for _ in range(times): commandrunner.run_safely(command)
RECURSIVE RunLoop(_, _, _)
RunLoop(log, command, todo) ==
    IF todo = {}
    THEN log
    ELSE LET k == CHOOSE x \in todo : \A y \in todo : x <= y
         IN  RunLoop(run_safely(log, command), command, todo \ {k})

RepeatEv(times, command, outcome, msg) ==
    Ev("repeat", command, NoArg, times, 0, outcome, msg)

repeat(times, command) ==
    IF times < 0
    THEN /\ event' = RepeatEv(times, command, CommandError, NegativeMsg)
         /\ UNCHANGED runlog
    ELSE /\ Len(runlog) + times <= MaxLog
         /\ runlog' = RunLoop(runlog, command, range(times))
         /\ event' = RepeatEv(times, command, OK, "")

\* The user issues :repeat times command.
Repeat ==
    /\ \E times \in TimesInputs, command \in Commands : repeat(times, command)
    /\ UNCHANGED <<profilerVars, env, timers, clock>>

NextRepeat == Repeat

SpecRepeat == InitCommands /\ [][NextRepeat]_vars


(***************************************************************************)
(* Properties.  A step is recognised by the event it leaves: every action  *)
(* sets event, so a step with event'.op = "debug-profile" is an invocation *)
(* of debug_profile with sub-command event'.cmd.                           *)
(***************************************************************************)
IsProfile(e, cmd) == e.op = "debug-profile" /\ e.cmd = cmd

Fails(e, msg) == e.outcome = CommandError /\ e.msg = msg

\* C1: with no session (no start issued, or the session reset), debug-profile
\* stop, reset, dump and show fail with the command error "Profiling was never
\* started!", whatever the argument and the process handle are.
C1_NeverStarted ==
    [][ (/\ event'.op = "debug-profile"
         /\ event'.cmd \in {"stop", "reset", "dump", "show"}
         /\ profile = NoSession)
        => Fails(event', NeverStartedMsg) ]_vars

\* C1: stop was refused for want of a session while a visualizer process was
\* tracked.
C1_Witness ==
    /\ IsProfile(event, "stop")
    /\ Fails(event, NeverStartedMsg)
    /\ profile = NoSession
    /\ proc # NoProc

\* C2: with a session present, a sub-command token other than start, stop,
\* reset, dump, show and kill fails with a command error whose message is
\* "Unknown sub-command <token>!".
C2_UnknownSubCommand ==
    [][ (/\ event'.op = "debug-profile"
         /\ event'.cmd \notin SubCommands
         /\ profile # NoSession)
        => Fails(event', UnknownMsg(event'.cmd)) ]_vars

\* C3: kill fails with "No process running!" whenever no process is tracked;
\* issued right after a successful show it terminates the tracked process and
\* clears the handle (so that a kill right after it fails again).
C3_KillLifecycle ==
    [][ (event'.op = "debug-profile" /\ event'.cmd = "kill")
        => /\ proc = NoProc => Fails(event', NoProcessMsg)
           /\ (IsProfile(event, "show") /\ event.outcome = OK)
                 => /\ event'.outcome = OK
                    /\ proc' = NoProc
                    /\ procs'[proc].state # "running" ]_vars

\* C4: whenever a visualizer process is tracked, kill succeeds: it terminates
\* the process and clears the handle, also after a reset dropped the session.
C4_KillNeedsOnlyProcess ==
    [][ (event'.op = "debug-profile" /\ event'.cmd = "kill" /\ proc # NoProc)
        => /\ event'.outcome = OK
           /\ proc' = NoProc
           /\ procs'[proc].state # "running" ]_vars

\* C5: an existing session is replaced or dropped by nothing but a successful
\* reset, and what it collected is never lost by another step (a start with a
\* session present resumes it); a session is created only by a start issued
\* with no session, and it is a new one.
C5_StartKeepsSession ==
    [][ /\ (profile # NoSession
            /\ ~(IsProfile(event', "reset") /\ event'.outcome = OK))
           => (profile' = profile /\ samples' >= samples)
        /\ (profile' # NoSession /\ profile' # profile)
           => /\ profile = NoSession
              /\ IsProfile(event', "start")
              /\ profile' > nextSession
              /\ samples' = 0
        /\ (IsProfile(event', "start") /\ event'.outcome = OK)
           => (enabled' /\ profile' # NoSession) ]_vars

\* C5: a start resumed the first session with the data it had collected.
C5_Witness ==
    /\ IsProfile(event, "start")
    /\ event.outcome = OK
    /\ profile = 1
    /\ samples = MaxSamples
    /\ proc # NoProc

\* C6: the process handle is non-null only while the process it refers to
\* runs, and a handled finished notification leaves the handle null.
C6_HandleOnlyWhileAlive ==
    /\ [](proc # NoProc => procs[proc].state = "running")
    /\ [][event'.op = "finished" => proc' = NoProc]_vars

\* C6: the tracked process exited, its notification was handled, and a later
\* show tracks the next process.
C6_Witness ==
    /\ proc = 2
    /\ procs[1].state = "gone"
    /\ procs[2].state = "running"

\* C7: every visualizer process that still runs un-terminated is the one the
\* handle refers to.
C7_RunningIsTracked ==
    \A p \in ProcIds : procs[p].state = "running" => proc = p

Occurrences(log, c) == Cardinality({k \in DOMAIN log : log[k] = c})

\* C8: a timer made by later has run the command at most once, never before
\* its duration has passed and always once the loop has moved past it, and
\* run_safely was called for exactly the fired timers' commands; a later with
\* a negative duration is a command error that makes no timer and runs
\* nothing, one with a duration that fits makes one timer for that duration
\* and command and runs nothing yet.
C8_LaterRunsOnce ==
    /\ [](\A i \in DOMAIN timers :
            /\ timers[i].runs <= 1
            /\ timers[i].runs = 1 => clock - timers[i].created >= timers[i].interval
            /\ (timers[i].cmd # "" /\ clock - timers[i].created > timers[i].interval)
                  => timers[i].runs = 1)
    /\ [](\A c \in Commands :
            Occurrences(runlog, c) =
               Cardinality({i \in DOMAIN timers :
                               timers[i].cmd = c /\ timers[i].runs >= 1}))
    /\ [][ event'.op = "later"
           => /\ (event'.ovf = 0 /\ event'.n < 0)
                 => /\ event'.outcome = CommandError
                    /\ timers' = timers
                    /\ runlog' = runlog
              /\ (event'.ovf = 0 /\ event'.n >= 0)
                 => /\ event'.outcome = OK
                    /\ Len(timers') = Len(timers) + 1
                    /\ SubSeq(timers', 1, Len(timers)) = timers
                    /\ timers'[Len(timers')].interval = event'.n
                    /\ timers'[Len(timers')].cmd = event'.cmd
                    /\ timers'[Len(timers')].runs = 0
                    /\ runlog' = runlog ]_vars

\* C8: a later with 2 ms has run its command once, 2 ms or more after it was
\* issued.
C8_Witness ==
    \E i \in DOMAIN timers :
        /\ timers[i].interval = 2
        /\ timers[i].runs = 1
        /\ clock - timers[i].created >= 2
        /\ runlog # << >>

\* C9: repeat with a count N >= 0 appends exactly N calls of run_safely with
\* its command to the calls made so far (none for N = 0) before it returns;
\* with N < 0 it is a command error and makes no call.
C9_RepeatRunsNTimes ==
    [][ event'.op = "repeat"
        => IF event'.n < 0
           THEN /\ Fails(event', NegativeMsg)
                /\ runlog' = runlog
           ELSE /\ event'.outcome = OK
                /\ Len(runlog') = Len(runlog) + event'.n
                /\ SubSeq(runlog', 1, Len(runlog)) = runlog
                /\ \A k \in Len(runlog) + 1 .. Len(runlog') :
                       runlog'[k] = event'.cmd ]_vars

\* C9: a repeat with the largest count ran after an earlier command.
C9_Witness ==
    /\ event.op = "repeat"
    /\ event.outcome = OK
    /\ event.n = MaxTimes
    /\ Len(runlog) > MaxTimes
    /\ runlog[1] # event.cmd

C11_FailuresAreCommandErrors ==
    [][ (\/ /\ event'.op = "later"
            /\ (event'.ovf > 0 \/ event'.n < 0)
         \/ /\ event'.op = "repeat"
            /\ event'.n < 0
         \/ /\ event'.op = "debug-profile"
            /\ \/ event'.cmd \notin SubCommands
               \/ event'.cmd \in {"stop", "reset", "dump", "show"}
                     /\ profile = NoSession
               \/ event'.cmd = "dump" /\ event'.arg = NoArg
               \/ event'.cmd = "kill" /\ proc = NoProc
               \/ event'.cmd = "show" /\ (~env.snakeviz \/ env.frozen))
        => event'.outcome = CommandError ]_vars

\* C12: every timer created by later is eventually disposed of, on every
\* path.  A timer exists only while it waits for its single timeout or with
\* its deletion requested; it runs its command at most once; a later that
\* fails on a too large duration requests the deletion of the timer it
\* created before the error is reported, and that timer never runs a command;
\* a timer that is due, or whose deletion is requested, ends up deleted, and
\* a deleted timer stays deleted and never fires again.
C12_TimersAreDisposed ==
    /\ [](\A i \in DOMAIN timers :
            /\ timers[i].singleShot
            /\ timers[i].runs <= 1
            /\ \/ timers[i].active /\ timers[i].runs = 0
                    /\ timers[i].cmd \in Commands
               \/ ~timers[i].active /\ timers[i].deletion # "no"
            /\ timers[i].cmd \notin Commands =>
                  timers[i].runs = 0 /\ ~timers[i].active)
    /\ [][ /\ event'.op = "later" /\ event'.ovf > 0 =>
               /\ event'.outcome = CommandError
               /\ Len(timers') = Len(timers) + 1
               /\ timers'[Len(timers')].deletion = "scheduled"
               /\ ~timers'[Len(timers')].active
               /\ runlog' = runlog
           /\ event'.op = "later" /\ event'.n < 0 => timers' = timers
           /\ \A i \in DOMAIN timers :
                 /\ timers[i].deletion = "done" => timers'[i] = timers[i]
                 /\ timers[i].deletion = "scheduled" =>
                       timers'[i].deletion # "no"
                       /\ timers'[i].runs = timers[i].runs ]_vars
    /\ <>[](\A i \in DOMAIN timers :
               \/ timers[i].deletion = "done"
               \/ timers[i].deletion = "no" /\ ~Due(i))

\* C12: a timer of a failed later and a timer that ran its command have both
\* been deleted.
C12_Witness ==
    /\ Len(timers) = 2
    /\ timers[1].cmd \notin Commands
    /\ timers[1].deletion = "done"
    /\ timers[2].runs = 1
    /\ timers[2].deletion = "done"
    /\ event.op = "timer-deleted"

\* C13: a show that succeeds creates exactly one process, started with the
\* port that was picked, makes it the handle, writes the profile file and
\* schedules exactly one tab, whose URL http://localhost:<port>/snakeviz/<file>
\* carries that same port and that file; the tab is opened only after, and
\* only for, a process that was started, and at most once; a show that fails
\* creates no process and schedules no tab.
C13_ShowSpawnsOneProcessOneTab ==
    /\ [](\A p \in ProcIds :
            IF Born(p)
            THEN /\ procs[p].port \in Ports
                 /\ procs[p].tab \in {"pending", "opened"}
                 /\ procs[p].url.port = procs[p].port
                 /\ procs[p].url.file = TempProfile
            ELSE procs[p].tab = "none" /\ procs[p].url = NoUrl)
    /\ [][ /\ IsProfile(event', "show") /\ event'.outcome = OK =>
               /\ NumProcs' = NumProcs + 1
               /\ proc' = NumProcs + 1
               /\ ~Born(proc')
               /\ procs'[proc'].state = "running"
               /\ procs'[proc'].tab = "pending"
               /\ files'[TempProfile] # NoFile
               /\ \A q \in ProcIds \ {proc'} : procs'[q] = procs[q]
           /\ IsProfile(event', "show") /\ event'.outcome # OK =>
               procs' = procs /\ proc' = proc
           /\ \A p \in ProcIds :
                 /\ procs[p].tab = "opened" => procs'[p].tab = "opened"
                 /\ (procs[p].tab # "opened" /\ procs'[p].tab = "opened") =>
                       /\ event'.op = "tabopen"
                       /\ procs[p].tab = "pending"
                       /\ \A q \in ProcIds \ {p} : procs'[q] = procs[q]
                 /\ Born(p) => procs'[p].url = procs[p].url
                               /\ procs'[p].port = procs[p].port ]_vars

\* C13: the tab of a second show was opened on the port of its process,
\* which differs from the port of the first.
C13_Witness ==
    /\ procs[2].tab = "opened"
    /\ procs[2].url.port = procs[2].port
    /\ procs[2].port # procs[1].port
    /\ procs[2].state = "running"
    /\ proc = 2
    /\ event.op = "tabopen"

\* C14: whenever cleanup_proc executes, the process handle is non-null.
\* cleanup_proc runs from kill, behind the handle check, and as the slot of
\* the finished signal; stated for the finished signal of a process that
\* exited on its own, where no deferred delete races with the delivery.
C14_CleanupHasHandle ==
    [][ (/\ event'.op = "finished"
         /\ \E p \in ProcIds :
               procs[p].state = "running" /\ procs'[p].state = "gone")
        => (proc # NoProc /\ event'.outcome = OK) ]_vars

\* C15: the finished notification of a process terminates and releases that
\* process only: no other process is terminated by it, and the handle is
\* cleared only if it referred to the process that finished.
C15_FinishedReleasesOnlyItsProcess ==
    [][ event'.op = "finished" =>
          /\ \A q \in ProcIds :
                procs'[q].state # procs[q].state => procs'[q].state = "gone"
          /\ proc' # proc => procs'[proc].state = "gone" ]_vars

\* C16: a debug-profile invocation that fails leaves the Profiler as it was:
\* the session (present or not, the same object, still collecting or not, the
\* same data), the process handle, the processes and their scheduled tabs,
\* and the files are unchanged; no process is spawned and no tab scheduled.
C16_FailureChangesNothing ==
    [][ (event'.op = "debug-profile" /\ event'.outcome # OK) =>
          /\ profile' = profile
          /\ enabled' = enabled
          /\ samples' = samples
          /\ nextSession' = nextSession
          /\ proc' = proc
          /\ procs' = procs
          /\ files' = files ]_vars

\* C16: a dump without a filename failed while a session was collecting,
\* held data, and a visualizer process was tracked with its tab pending.
C16_Witness ==
    /\ IsProfile(event, "dump")
    /\ Fails(event, NoFilenameMsg)
    /\ profile # NoSession
    /\ enabled
    /\ samples = MaxSamples
    /\ proc # NoProc
    /\ procs[proc].state = "running"
    /\ procs[proc].tab = "pending"

====
